---- MODULE Spec2Model ----
(***************************************************************************)
(* Model of the Trail CLI (packages/trail-cli): the file-backed session     *)
(* store, the user config holding the active-session pointer, and the       *)
(* commands that read and write them.  One action per CLI command; one      *)
(* step of the model is one invocation of the CLI.                          *)
(*                                                                          *)
(* Optional JSON fields are encoded as sequences: <<>> is "absent" (JS      *)
(* undefined / null, both falsy), <<v>> is "present with value v".          *)
(*                                                                          *)
(* Text (tool output, messages, paths) is a sequence of tokens.  A token    *)
(* stands for one character or for a run of characters that every          *)
(* character class of the program treats alike:                             *)
(*   "a" a letter, "3" and "0" digits, ":" "(" ")" themselves, "q" a        *)
(*   single quote, "sp" a space, "nl" a line feed, "at" the word `at`,      *)
(*   "E" the word `Error`, "M" the words `Cannot find module `,             *)
(*   "cwd" the working directory followed by a path separator.              *)
(***************************************************************************)
EXTENDS Integers, Sequences, FiniteSets, TLC

VARIABLES
    configFile,   \* content of ~/.trail/config.json
    files,        \* content of ~/.trail/sessions/<id>.json, per session id
    lastCmd,      \* name of the command run by the last invocation
    lastArg,      \* its argument (session id or message), when it has one
    lastEnv,      \* TRAIL_TOKEN in the environment of the last invocation
    result,       \* outcome signalled by the last invocation
    requests,     \* HTTP requests issued by the last invocation, in order
    tools,        \* what the external tools (eslint, node -c, fs) answer
    calls,        \* external tools run by the last invocation, in order
    detected,     \* error records the last invocation obtained, in order
    analysed,     \* files the last invocation ran detection on, in order
    answers,      \* what the remote answered to each lookup request, in order
    shown         \* what lookup printed for each error, in order

vars == <<configFile, files, lastCmd, lastArg, lastEnv, result, requests,
          tools, calls, detected, analysed, answers, shown>>

disk == <<configFile, files>>

----------------------------------------------------------------------------
(* Bounds and value universes *)

MaxTime == 2

Times == 1..MaxTime

Ids == {"s1", "s2"}

Tokens == {"tokA"}

Messages == {"fixed null check"}

None == <<>>

Some(v) == <<v>>

IsSet(o) == o # <<>>

Val(o) == o[1]

----------------------------------------------------------------------------
(* JSON values on disk *)

EmptyObj ==
    [id |-> None, startTime |-> None, endTime |-> None, isRecording |-> None,
     commands |-> None, steps |-> None, metadata |-> None, git |-> None,
     resolution |-> None]

EmptyConfig == [activeSession |-> None, token |-> None]

\* A path with no file.
NoFile == [kind |-> "none", data |-> EmptyObj]

\* A file whose text is not parsable JSON (empty or truncated).
TornFile == [kind |-> "torn", data |-> EmptyObj]

SessionKeys ==
    <<"id", "startTime", "endTime", "isRecording", "commands", "steps",
      "metadata", "git", "resolution">>

\* JSON.stringify with a replacer list that names only the members a fresh
\* recording has.
JSONstringifyReplacer(d) ==
    SelectSeq([i \in 1..Len(SessionKeys) |-> <<SessionKeys[i], d[SessionKeys[i]]>>],
              LAMBDA p : p[2] # <<>>
                         /\ p[1] \in {"id", "startTime", "commands", "isRecording"})

\* JSON.stringify(obj, null, 2): the members of the object that have a value,
\* as key/value pairs; absent (undefined) members are left out.
JSONstringify(d) ==
    SelectSeq([i \in 1..Len(SessionKeys) |-> <<SessionKeys[i], d[SessionKeys[i]]>>],
              LAMBDA p : p[2] # <<>>)

\* JSON.parse(text): the object with the members the text lists.
JSONparse(text) ==
    LET member(k) ==
            IF \E i \in 1..Len(text) : text[i][1] = k
            THEN text[CHOOSE i \in 1..Len(text) : text[i][1] = k][2]
            ELSE <<>>
    IN  [id |-> member("id"), startTime |-> member("startTime"),
         endTime |-> member("endTime"), isRecording |-> member("isRecording"),
         commands |-> member("commands"), steps |-> member("steps"),
         metadata |-> member("metadata"), git |-> member("git"),
         resolution |-> member("resolution")]

\* A file holding JSON.stringify(d), represented by what JSON.parse reads
\* back from it.
JsonFile(d) == [kind |-> "json", data |-> JSONparse(JSONstringify(d))]

NoConfigFile == [kind |-> "none", data |-> EmptyConfig]

TornConfigFile == [kind |-> "torn", data |-> EmptyConfig]

JsonConfigFile(c) == [kind |-> "json", data |-> c]

existsSync(f) == f.kind # "none"

Parsable(f) == f.kind = "json"

\* fs.writeFileSync(path, text): opens the path truncating it, writes, closes.
\* outcome "ok": the write completes; "fail": the open fails and throws, the
\* old content stays; "torn": the file was truncated and the write did not
\* complete (an error after the open, or the process killed).
writeFileSync(old, new, torn, outcome) ==
    CASE outcome = "ok"   -> new
      [] outcome = "fail" -> old
      [] outcome = "torn" -> torn

WriteOutcomes == {"ok", "fail", "torn"}

WriteFaults == {"fail", "torn"}

----------------------------------------------------------------------------
(* Helpers of cli.js *)

getSessionPath(id) == id

readUserConfig(cf) == IF Parsable(cf) THEN cf.data ELSE EmptyConfig

getActiveSessionId(cf) == readUserConfig(cf).activeSession

saveConfig(cf, config, outcome) ==
    writeFileSync(cf, JsonConfigFile(config), TornConfigFile, outcome)

\* setActiveSession that writes a config holding nothing but the pointer.
setActiveSessionOnly(cf, sessionId, outcome) ==
    saveConfig(cf, [EmptyConfig EXCEPT !.activeSession = sessionId], outcome)

setActiveSession(cf, sessionId, outcome) ==
    saveConfig(cf, [readUserConfig(cf) EXCEPT !.activeSession = sessionId], outcome)

getToken(env, cf) == IF IsSet(env) THEN env ELSE readUserConfig(cf).token

\* !x for an optional boolean field: absent and false are falsy.
Truthy(o) == IsSet(o) /\ Val(o) = TRUE

\* !arr || arr.length === 0
EmptyList(o) == ~IsSet(o) \/ Len(Val(o)) = 0

----------------------------------------------------------------------------
(* Text and regular expressions *)

TokenSet ==
    {"a", "3", "0", ":", "(", ")", "q", "sp", "nl", "at", "E", "M", "cwd"}

Digits == {"3", "0"}

WhiteSpace == {"sp", "nl"}

DigitValue(tk) == IF tk = "3" THEN 3 ELSE 0

\* Number of leading tokens of s, from position pos on, that are in set; at
\* most max.
Run(set, s, pos, max) ==
    LET limit == IF Len(s) - pos + 1 < max THEN Len(s) - pos + 1 ELSE max
    IN  CHOOSE n \in 0..limit :
            /\ \A k \in 0..(n - 1) : s[pos + k] \in set
            /\ n = limit \/ s[pos + n] \notin set

\* String.prototype.trim.
trim(s) ==
    LET lead == Run(WhiteSpace, s, 1, Len(s))
        rest == SubSeq(s, lead + 1, Len(s))
        keep == IF rest = <<>> THEN 0
                ELSE CHOOSE n \in 1..Len(rest) :
                         /\ rest[n] \notin WhiteSpace
                         /\ \A k \in (n + 1)..Len(rest) : rest[k] \in WhiteSpace
    IN  SubSeq(rest, 1, keep)

\* text.split('\n'): the lines of a text.
RECURSIVE split(_)
split(s) ==
    IF \A i \in 1..Len(s) : s[i] # "nl"
    THEN <<s>>
    ELSE LET i == CHOOSE j \in 1..Len(s) :
                      s[j] = "nl" /\ \A k \in 1..(j - 1) : s[k] # "nl"
         IN  <<SubSeq(s, 1, i - 1)>> \o split(SubSeq(s, i + 1, Len(s)))

\* parseInt(text, 10): leading white space is skipped, then the digits that
\* follow are read; None stands for NaN.
parseInt(s) ==
    LET lead == Run(WhiteSpace, s, 1, Len(s))
        n == Run(Digits, s, lead + 1, Len(s))
        value[k \in 0..n] ==
            IF k = 0 THEN 0 ELSE 10 * value[k - 1] + DigitValue(s[lead + k])
    IN  IF n = 0 THEN None ELSE Some(value[n])

\* One element of a regular expression: between min and max tokens of a
\* class, as many (greedy) or as few (lazy) as the rest of the match allows.
\* grp is the capture group the element lies in (0: none); optEnd > 0 marks
\* the first element of an optional group (...)? that ends at element optEnd.
Item(set, min, max, lazy, grp, optEnd) ==
    [set |-> set, min |-> min, max |-> max, lazy |-> lazy, grp |-> grp,
     optEnd |-> optEnd]

Unbounded == 99

One(set, grp) == Item(set, 1, 1, FALSE, grp, 0)

Plus(set, grp) == Item(set, 1, Unbounded, FALSE, grp, 0)

Star(set, grp) == Item(set, 0, Unbounded, FALSE, grp, 0)

NoCaptures == [g \in 1..5 |-> <<>>]

\* The backtracking matcher: the first way, in the order a backtracking
\* engine tries them, to match elements i.. of a pattern against s from
\* position pos on.  The answer is <<>> (no match) or <<captures>>, where
\* captures[g] is <<>> for a group that took no part and <<from, to>> for
\* the span group g captured.
RECURSIVE MatchFrom(_, _, _, _, _, _)
RECURSIVE TryCount(_, _, _, _, _, _, _)
MatchFrom(items, i, s, pos, caps, entered) ==
    IF i > Len(items) THEN <<caps>>
    ELSE IF items[i].optEnd > 0 /\ ~entered
    THEN LET r == MatchFrom(items, i, s, pos, caps, TRUE)
         IN  IF Len(r) > 0 THEN r
             ELSE MatchFrom(items, items[i].optEnd + 1, s, pos, caps, FALSE)
    ELSE LET avail == Run(items[i].set, s, pos, items[i].max)
         IN  IF avail < items[i].min THEN <<>>
             ELSE TryCount(items, i, s, pos, caps,
                           IF items[i].lazy THEN items[i].min ELSE avail, avail)

TryCount(items, i, s, pos, caps, n, avail) ==
    LET g == items[i].grp
        caps2 == IF g = 0 THEN caps
                 ELSE [caps EXCEPT ![g] = IF Len(@) = 0
                                          THEN <<pos, pos + n - 1>>
                                          ELSE <<@[1], pos + n - 1>>]
        r == MatchFrom(items, i + 1, s, pos + n, caps2, FALSE)
    IN  IF Len(r) > 0 THEN r
        ELSE IF items[i].lazy
        THEN IF n < avail THEN TryCount(items, i, s, pos, caps, n + 1, avail)
             ELSE <<>>
        ELSE IF n > items[i].min
             THEN TryCount(items, i, s, pos, caps, n - 1, avail)
             ELSE <<>>

\* String.prototype.match(pattern) without the g flag: <<>> (null) or
\* <<groups>>, where groups[g] is None (undefined) or Some(captured text).
\* An anchored pattern (^) is tried at the start only, any other at each
\* position from the left.
RECURSIVE MatchAt(_, _, _)
MatchAt(pattern, s, start) ==
    LET r == MatchFrom(pattern.items, 1, s, start, NoCaptures, FALSE)
    IN  IF Len(r) > 0
        THEN <<[g \in 1..5 |->
                  IF Len(r[1][g]) = 0 THEN None
                  ELSE Some(SubSeq(s, r[1][g][1], r[1][g][2]))]>>
        ELSE IF pattern.anchored \/ start > Len(s) THEN <<>>
        ELSE MatchAt(pattern, s, start + 1)

match(s, pattern) == MatchAt(pattern, s, 1)

\* a || b on strings that may be undefined: a unless it is undefined or "".
OrElse(a, b) == IF IsSet(a) /\ Len(Val(a)) > 0 THEN a ELSE b

\* The patterns applied to the output of a failed syntax check, in the order
\* they are tried.
errorPatterns ==
    LET NotColonNl == TokenSet \ {":", "nl"}
        NotColon == TokenSet \ {":"}
        NotNl == TokenSet \ {"nl"}
        NotQuote == TokenSet \ {"q"}
        \* (?:\n\s*at [^\n]+\s\(([^:]+):(\d+):(\d+)\))?  as elements first..
        AtTail(first) ==
            <<Item({"nl"}, 1, 1, FALSE, 0, first + 12), Star(WhiteSpace, 0),
              One({"at"}, 0), One({"sp"}, 0), Plus(NotNl, 0), One(WhiteSpace, 0),
              One({"("}, 0), Plus(NotColon, 3), One({":"}, 0), Plus(Digits, 4),
              One({":"}, 0), Plus(Digits, 5), One({")"}, 0)>>
    IN  << \* /^([^:\n]+?):(\d+):(\d+)[\s\S]*?\n([^\n]+)/
           [anchored |-> TRUE,
            items |-> <<Item(NotColonNl, 1, Unbounded, TRUE, 1, 0), One({":"}, 0),
                        Plus(Digits, 2), One({":"}, 0), Plus(Digits, 3),
                        Item(TokenSet, 0, Unbounded, TRUE, 0, 0), One({"nl"}, 0),
                        Plus(NotNl, 4)>>],
           \* /^([^:]+):\s*([\s\S]*)(?:\n\s*at [^\n]+\s\(([^:]+):(\d+):(\d+)\))?/
           [anchored |-> TRUE,
            items |-> <<Plus(NotColon, 1), One({":"}, 0), Star(WhiteSpace, 0),
                        Star(TokenSet, 2)>> \o AtTail(5)],
           \* /^([^:]+):\s*([^\n]+)(?:\n\s*at [^\n]+\s\(([^:]+):(\d+):(\d+)\))?/
           [anchored |-> TRUE,
            items |-> <<Plus(NotColon, 1), One({":"}, 0), Star(WhiteSpace, 0),
                        Plus(NotNl, 2)>> \o AtTail(5)],
           \* /(?:Error: )?(Cannot find module '[^']+')/i
           [anchored |-> FALSE,
            items |-> <<Item({"E"}, 1, 1, FALSE, 0, 3), One({":"}, 0), One({"sp"}, 0),
                        One({"M"}, 1), One({"q"}, 1), Plus(NotQuote, 1),
                        One({"q"}, 1)>>] >>

----------------------------------------------------------------------------
(* Error detection: detectErrors and what the external tools answer *)

Falsy(o) == ~IsSet(o) \/ Len(Val(o)) = 0

Range(seq) == {seq[i] : i \in 1..Len(seq)}

\* The content of a source file that can be read, as lines: a line of code,
\* an empty line, a line of blanks.
FileContent == << <<"sp", "a", "sp">>, <<>>, <<"sp">> >>

\* path.relative(process.cwd(), p) for a path inside the working directory.
pathRelative(p) == IF Len(p) > 0 /\ p[1] = "cwd" THEN Tail(p) ELSE p

NoDetails ==
    [filePath |-> None, line |-> None, column |-> None, source |-> None,
     sourceCode |-> None]

\* createError(message, details) in detectErrors(filePath).
createError(message, details, filePath) ==
    [message |-> trim(message),
     filePath |-> pathRelative(Val(OrElse(details.filePath, Some(filePath)))),
     line |-> IF IsSet(details.line) /\ Val(details.line) # 0
              THEN Val(details.line) ELSE 1,
     column |-> IF IsSet(details.column) /\ Val(details.column) # 0
                THEN Val(details.column) ELSE 1,
     source |-> IF IsSet(details.source) THEN Val(details.source) ELSE "trail-cli",
     sourceCode |-> IF Falsy(details.sourceCode) THEN None ELSE details.sourceCode]

\* How a block of code ends: by a return statement, by an exception, or by
\* running to its end.
Returned(v) == [kind |-> "return", value |-> v]

Thrown == [kind |-> "throw", value |-> <<>>]

Completed == [kind |-> "normal", value |-> <<>>]

\* execSync throws unless the command ran and exited with status 0.
execSyncThrows(outcome) == outcome.status # "exit0"

RECURSIVE Concat(_)
Concat(seqs) == IF seqs = <<>> THEN <<>> ELSE Head(seqs) \o Concat(Tail(seqs))

\* `eslint:${msg.ruleId || 'unknown'}`
eslintSource(ruleId) ==
    IF ruleId = Some("no-undef") THEN "eslint:no-undef"
    ELSE IF ruleId = Some("semi") THEN "eslint:semi"
    ELSE "eslint:unknown"

\* The body of the first try block: run eslint and turn its error-severity
\* diagnostics into records.
lintTry(filePath, t) ==
    IF execSyncThrows(t.lint) THEN Thrown
    ELSE IF ~IsSet(t.lint.stdout) THEN Thrown          \* JSON.parse throws
    ELSE LET eslintResults == Val(t.lint.stdout)
             fileContent == IF t.snippet = "ok" THEN FileContent ELSE <<>>
             record(res, msg) ==
                 createError(msg.message,
                     [filePath |-> Some(res.filePath),
                      line |-> Some(msg.line),
                      column |-> Some(msg.column),
                      source |-> Some(eslintSource(msg.ruleId)),
                      sourceCode |-> IF msg.line \in 1..Len(fileContent)
                                     THEN Some(trim(fileContent[msg.line]))
                                     ELSE None],
                     filePath)
             errorsOf(res) ==
                 LET ms == SelectSeq(res.messages, LAMBDA m : m.severity = 2)
                 IN  [i \in 1..Len(ms) |-> record(res, ms[i])]
             errors == Concat([i \in 1..Len(eslintResults) |->
                                  errorsOf(eslintResults[i])])
         IN  IF Len(eslintResults) > 0 /\ Len(eslintResults[1].messages) > 0
             THEN IF t.snippet = "unreadable" THEN Thrown   \* readFileSync throws
                  ELSE IF Len(errors) > 0 THEN Returned(errors)
                  ELSE Completed
             ELSE Completed

\* catch (e) { } of the lint step: an exception is swallowed.
Swallow(outcome) == IF outcome.kind = "throw" THEN Completed ELSE outcome

\* try { eslint } catch (e) { }
lintBlock(filePath, t) == Swallow(lintTry(filePath, t))

\* e.message of the error execSync throws for a failed command:
\* `Command failed: <command>`, followed by a line feed and the command's
\* stderr when it wrote any.
execErrorMessage(stderr) ==
    <<"a", "sp", "a", ":", "sp", "a", "sp", "a">>
        \o (IF Len(stderr) > 0 THEN <<"nl">> \o stderr ELSE <<>>)

\* errorOutput.match(pattern) for each pattern of errorPatterns.
Matches(errorOutput) ==
    [k \in 1..Len(errorPatterns) |-> match(errorOutput, errorPatterns[k])]

\* The index of the first pattern that matched, 0 when none did.
FirstMatching(matches) ==
    IF \E k \in 1..Len(matches) : Len(matches[k]) > 0
    THEN CHOOSE k \in 1..Len(matches) :
             /\ Len(matches[k]) > 0
             /\ \A j \in 1..(k - 1) : Len(matches[j]) = 0
    ELSE 0

\* parseInt(a || b || 1, 10)
parseIntOr(a, b) ==
    IF ~Falsy(a) THEN parseInt(Val(a))
    ELSE IF ~Falsy(b) THEN parseInt(Val(b))
    ELSE Some(1)

\* The line of the file an error points at, when the file can be read and
\* has something on that line.
snippetAt(line, t) ==
    IF t.snippet = "ok" /\ IsSet(line) /\ Val(line) \in 1..Len(FileContent)
       /\ Len(FileContent[Val(line)]) > 0
    THEN Some(trim(FileContent[Val(line)]))
    ELSE None

\* errorDetails built from the groups m of the pattern that matched.
errorDetails(m, line, filePath, t) ==
    [message |-> OrElse(m[2], m[1]),
     filePath |-> OrElse(m[3], Some(filePath)),
     line |-> line,
     column |-> parseIntOr(m[5], m[3]),
     source |-> Some("node-syntax"),
     sourceCode |-> snippetAt(line, t)]

\* return [createError(errorDetails.message, errorDetails)]
returnDetails(details, filePath) ==
    IF ~IsSet(details.message) THEN Thrown             \* undefined.trim()
    ELSE Returned(<<createError(Val(details.message), details, filePath)>>)

\* extractError that returns nothing when no pattern matches.
extractErrorDropsUnmatched(errorOutput, k, matches, filePath, t) ==
    IF k = 0 THEN Returned(<<>>)
    ELSE returnDetails(errorDetails(matches[k][1],
                                    parseIntOr(matches[k][1][4], matches[k][1][2]),
                                    filePath, t),
                       filePath)

\* The loop over errorPatterns and the fallback after it.
extractError(errorOutput, k, matches, filePath, t) ==
    IF k = 0
    THEN Returned(<<createError(split(errorOutput)[1],
                        [NoDetails EXCEPT !.filePath = Some(filePath),
                                          !.source = Some("node-runtime")],
                        filePath)>>)
    ELSE returnDetails(errorDetails(matches[k][1],
                                    parseIntOr(matches[k][1][4], matches[k][1][2]),
                                    filePath, t),
                       filePath)

\* What the catch block of the syntax check does with errorOutput.
fromErrorOutput(errorOutput, matches, filePath, t) ==
    IF Len(errorOutput) = 0 THEN Returned(<<>>)
    ELSE extractError(errorOutput, FirstMatching(matches), matches, filePath, t)

\* (e.stderr || e.message || '').toString()
errorOutputOf(stderr) ==
    IF Len(stderr) > 0 THEN stderr ELSE execErrorMessage(stderr)

withMatches(errorOutput, filePath, t) ==
    fromErrorOutput(errorOutput, Matches(errorOutput), filePath, t)

\* The catch block of the syntax check: one record out of the error output.
syntaxCatch(filePath, t) ==
    withMatches(errorOutputOf(t.syntax.stderr), filePath, t)

\* A syntax step that takes an error out of the output of a run that
\* succeeded too.
syntaxBlockIgnoresStatus(filePath, t) == syntaxCatch(filePath, t)

\* try { node -c; return [] } catch (e) { ... }
syntaxBlock(filePath, t) ==
    IF t.syntax.status = "ok" THEN Returned(<<>>) ELSE syntaxCatch(filePath, t)

\* The record the outermost catch block makes of an exception.
analysisError(filePath) ==
    createError(<<"a">>, [NoDetails EXCEPT !.filePath = Some(filePath),
                                           !.source = Some("trail-cli")], filePath)

\* catch (error) { return [createError(error.message, ...)] }
outerCatch(outcome, filePath) ==
    IF outcome.kind = "throw" THEN Returned(<<analysisError(filePath)>>)
    ELSE outcome

\* What follows the lint step: its records, or the syntax check.
afterLint(lint, filePath, t) ==
    IF lint.kind = "return"
    THEN [outcome |-> lint, calls |-> <<"eslint">>]
    ELSE [outcome |-> outerCatch(syntaxBlock(filePath, t), filePath),
          calls |-> <<"eslint", "node -c">>]

\* afterLint with no catch block around it: an exception of the lint step
\* leaves detectErrors.
afterLintUncaught(lint, filePath, t) ==
    IF lint.kind # "normal"
    THEN [outcome |-> lint, calls |-> <<"eslint">>]
    ELSE [outcome |-> syntaxBlock(filePath, t), calls |-> <<"eslint", "node -c">>]

\* detectErrors without its catch blocks for the lint step.
detectErrorsUncaught(filePath, t) ==
    afterLintUncaught(lintTry(filePath, t), filePath, t)

\* afterLint that runs the syntax check whatever lint found and adds what
\* it reports.
afterLintMerged(lint, syntax) ==
    [outcome |-> Returned(lint.value \o syntax.value),
     calls |-> <<"eslint", "node -c">>]

\* detectErrors that does not stop after lint.
detectErrorsMerged(filePath, t) ==
    afterLintMerged(lintBlock(filePath, t),
                    outerCatch(syntaxBlock(filePath, t), filePath))

\* detectErrors(filePath): how it ends and the tools it ran, in order.
detectErrors(filePath, t) == afterLint(lintBlock(filePath, t), filePath, t)

----------------------------------------------------------------------------
(* What the external tools can answer *)

MaxTextLen == 3

Alphabet == {"a", "3", ":", "sp", "nl"}

\* Every text of at most MaxTextLen tokens.
ShortTexts == UNION {[1..n -> Alphabet] : n \in 0..MaxTextLen}

\* Texts of the shape  file:line:col ... \n message.
StackTraceTexts ==
    { file \o <<":">> \o ln \o <<":">> \o col \o mid \o <<"nl">> \o msg :
        file \in {<<"a">>, <<"cwd", "a">>},
        ln \in {<<"3">>, <<"3", "0">>},
        col \in {<<"3">>, <<"0">>},
        mid \in {<<>>, <<"sp", "a">>, <<"nl">>},
        msg \in {<<"a">>, <<"E", ":", "sp", "a">>, <<"3", "a">>, <<"sp">>} }

\* Texts of the other shapes the patterns are written for.
ShapedTexts ==
    { <<"E", ":", "sp", "a", "nl", "sp", "at", "sp", "a", "sp", "(", "a", ":",
        "3", ":", "3", ")">>,
      <<"E", ":", "sp", "M", "q", "a", "q">>,
      <<"M", "q", "a", "q">>,
      <<"a", "nl", "M", "q", "a", "q", "nl", "a">>,
      <<"sp", "a", "sp", "nl", "a">>,
      <<"a", ":", "3", "nl", "sp", "a", "nl", "nl", "E", ":", "sp", "a">> }

ErrorTexts == ShortTexts \cup StackTraceTexts \cup ShapedTexts

\* Source files the CLI is asked to analyse.
SourceFiles == {<<"a">>, <<"cwd", "a">>}

Warning ==
    [severity |-> 1, message |-> <<"a">>, line |-> 1, column |-> 3,
     ruleId |-> Some("semi")]

UndefError ==
    [severity |-> 2, message |-> <<"sp", "a", "sp", "a">>, line |-> 1,
     column |-> 3, ruleId |-> Some("no-undef")]

ParseError ==
    [severity |-> 2, message |-> <<"a", ":", "sp", "a">>, line |-> 3,
     column |-> 1, ruleId |-> None]

LintResult(messages) == [filePath |-> <<"cwd", "a">>, messages |-> messages]

\* eslint could not be run.
LintUnavailable == [status |-> "spawn-failed", stdout |-> None]

\* eslint ran, exited with status 0 and reported nothing.
LintClean == [status |-> "exit0", stdout |-> Some(<<LintResult(<<>>)>>)]

\* What `npx eslint --format json` can answer: whether it ran and its exit
\* status, and on stdout either text that is not JSON (None) or a list of
\* results.  The status and the output are independent of each other:
\* `npx eslint` runs whatever the project has installed under that name.
LintOutcomes ==
    {LintUnavailable, LintClean}
    \cup { [status |-> st, stdout |-> out] :
              st \in {"exit0", "exit1", "exit2"},
              out \in {None,
                       Some(<<>>),
                       Some(<<LintResult(<<Warning>>)>>),
                       Some(<<LintResult(<<UndefError>>)>>),
                       Some(<<LintResult(<<Warning, UndefError, ParseError>>)>>),
                       Some(<<LintResult(<<>>), LintResult(<<UndefError>>)>>)} }

SyntaxOk == [status |-> "ok", stderr |-> <<>>]

\* `node -c` failed and wrote stderr.
SyntaxFailed(stderr) == [status |-> "failed", stderr |-> stderr]

\* `node` could not be run: the shell execSync starts does not find it,
\* writes `/bin/sh: 1: node: not found` and exits with status 127.
SyntaxUnavailable ==
    [status |-> "unavailable",
     stderr |-> <<"a", ":", "sp", "3", ":", "sp", "a", ":", "sp", "a", "sp", "a",
                  "nl">>]

\* Whether the file a snippet is read from is there and can be read.
Snippets == {"ok", "missing", "unreadable"}

\* What `ollama run` does: it prints a response, or it fails (not installed,
\* no such model, or no answer within the 30 s timeout).
OllamaOutcomes == {"ok", "failed"}

ToolOutcomes ==
    { [lint |-> l, syntax |-> sy, snippet |-> sn, ollama |-> o] :
        l \in LintOutcomes,
        sy \in {SyntaxOk, SyntaxFailed(<<>>), SyntaxFailed(<<"a">>),
                SyntaxFailed(<<"a", ":", "3", ":", "3", "nl", "a">>),
                SyntaxUnavailable},
        sn \in Snippets,
        o \in OllamaOutcomes }
    \cup
    { [lint |-> l, syntax |-> SyntaxFailed(x), snippet |-> sn, ollama |-> "failed"] :
        l \in {LintUnavailable, LintClean}, x \in ErrorTexts,
        sn \in {"ok", "unreadable"} }

\* A line of `git status --porcelain`: the two status letters and the path.
StatusLine(x, y, path, code) == [x |-> x, y |-> y, path |-> path, code |-> code]

\* What `git status --porcelain` can answer: it fails (None), or lists the
\* changed files.  code tells whether the path ends in the extension of a
\* programming language the CLI knows.
GitStatusOutcomes ==
    { None,
      Some(<<>>),
      Some(<<StatusLine("M", "sp", <<"a">>, TRUE)>>),
      Some(<<StatusLine("sp", "M", <<"a">>, TRUE)>>),
      Some(<<StatusLine("A", "sp", <<"a">>, FALSE)>>),
      Some(<<StatusLine("A", "sp", <<"a">>, TRUE),
             StatusLine("M", "M", <<"a">>, TRUE),
             StatusLine("M", "sp", <<"cwd", "a">>, TRUE)>>) }

ErrorStrings == {<<"a", "sp", "a">>}

----------------------------------------------------------------------------
(* The remote service and the local git checkout, as the CLI sees them *)

\* The three git commands of push all succeed, or one throws.
GitOutcomes == {None, Some([branch |-> "main", commit |-> "c0ffee"])}

Cmd1 == [command |-> "npm test", output |-> "1 failing"]

Metadata(createdAt, updatedAt) ==
    [createdAt |-> createdAt, updatedAt |-> updatedAt, status |-> "active"]

\* Session representations the remote may hold for an id (uploaded by any
\* client of the service): with and without commands, steps, a recording flag.
RemoteSessions(id) ==
    LET base == [EmptyObj EXCEPT !.id = Some(id), !.startTime = Some(1)]
    IN  { [base EXCEPT !.commands = Some(<<Cmd1>>), !.isRecording = Some(FALSE),
                       !.endTime = Some(1)],
          [base EXCEPT !.commands = Some(<<Cmd1>>), !.isRecording = Some(TRUE)],
          [base EXCEPT !.commands = Some(<<Cmd1>>), !.steps = Some(<<"step">>),
                       !.isRecording = Some(FALSE), !.endTime = Some(1),
                       !.metadata = Some(Metadata(1, 1))],
          [base EXCEPT !.steps = Some(<<"step">>)] }

GetResponses(id) ==
    { [status |-> "200", data |-> d] : d \in RemoteSessions(id) }
    \cup { [status |-> s, data |-> EmptyObj] : s \in {"404", "network"} }

PostResponses == {"200", "401", "500", "network"}

Request(method, path, id, token, body) ==
    [method |-> method, path |-> path, id |-> id, auth |-> token, body |-> body]

----------------------------------------------------------------------------
(* Commands.  Each action is one whole invocation of the CLI. *)

\* An invocation of a command that analyses no code.
Invocation(cmd, arg, env) ==
    /\ lastCmd' = cmd
    /\ lastArg' = arg
    /\ lastEnv' = env
    /\ calls' = <<>>
    /\ detected' = <<>>
    /\ analysed' = <<>>
    /\ answers' = <<>>
    /\ shown' = <<>>
    /\ UNCHANGED tools

\* `trail start`: no such command is registered with the program.
Start ==
    /\ Invocation("start", None, None)
    /\ result' = "UnknownCommand"
    /\ requests' = <<>>
    /\ UNCHANGED disk

Which ==
    /\ Invocation("which", None, None)
    /\ result' = IF IsSet(getActiveSessionId(configFile)) THEN "ok" ELSE "NoActiveSession"
    /\ requests' = <<>>
    /\ UNCHANGED disk

\* checkout that sets the pointer without looking for the session file.
CheckoutNoExistsCheck(id, o) ==
    /\ Invocation("checkout", Some(id), None)
    /\ requests' = <<>>
    /\ UNCHANGED files
    /\ configFile' = setActiveSession(configFile, Some(id), o)
    /\ result' = "ok"

CheckoutOp(id, o) ==
    /\ Invocation("checkout", Some(id), None)
    /\ requests' = <<>>
    /\ UNCHANGED files
    /\ IF existsSync(files[getSessionPath(id)])
       THEN /\ configFile' = setActiveSession(configFile, Some(id), o)
            /\ result' = IF o = "ok" THEN "ok" ELSE "Crash"
       ELSE /\ result' = "SessionNotFound"
            /\ UNCHANGED configFile

\* resolve that does not ask for an active session.
ResolveNoSessionCheck(m) ==
    /\ Invocation("resolve", Some(IF IsSet(m) THEN Val(m) ELSE "Fixed the issue"), None)
    /\ requests' = <<>>
    /\ result' = "ok"
    /\ UNCHANGED disk

ResolveOp(m) ==
    LET sessionId == getActiveSessionId(configFile)
        message == IF IsSet(m) THEN Val(m) ELSE "Fixed the issue"
    IN  /\ Invocation("resolve", Some(message), None)
        /\ requests' = <<>>
        /\ result' = IF IsSet(sessionId) THEN "ok" ELSE "NoActiveSession"
        /\ UNCHANGED disk

RecordStartOp(t, o) ==
    LET sessionId == getActiveSessionId(configFile)
        sessionData == [EmptyObj EXCEPT !.id = sessionId,
                                        !.startTime = Some(t),
                                        !.commands = Some(<<>>),
                                        !.isRecording = Some(TRUE)]
    IN  /\ Invocation("recordStart", None, None)
        /\ requests' = <<>>
        /\ UNCHANGED configFile
        /\ IF ~IsSet(sessionId)
           THEN /\ result' = "NoActiveSession"
                /\ UNCHANGED files
           ELSE /\ files' = [files EXCEPT ![getSessionPath(Val(sessionId))] =
                                 writeFileSync(@, JsonFile(sessionData), TornFile, o)]
                /\ result' = IF o = "ok" THEN "ok" ELSE "Crash"

\* record stop that sets endTime but leaves the recording flag as it was.
RecordStopKeepsFlag(t, o) ==
    LET sessionId == getActiveSessionId(configFile)
        sessionPath == getSessionPath(Val(sessionId))
        file == files[sessionPath]
    IN  /\ Invocation("recordStop", None, None)
        /\ requests' = <<>>
        /\ UNCHANGED configFile
        /\ IF IsSet(sessionId) /\ Parsable(file) /\ Truthy(file.data.isRecording)
           THEN /\ files' = [files EXCEPT ![sessionPath] =
                                 JsonFile([file.data EXCEPT !.endTime = Some(t)])]
                /\ result' = "ok"
           ELSE /\ result' = "NotRecording"
                /\ UNCHANGED files

\* record stop without the early return for a session that is not recording.
RecordStopAlways(t, o) ==
    LET sessionId == getActiveSessionId(configFile)
        sessionPath == getSessionPath(Val(sessionId))
        file == files[sessionPath]
    IN  /\ Invocation("recordStop", None, None)
        /\ requests' = <<>>
        /\ UNCHANGED configFile
        /\ IF IsSet(sessionId) /\ Parsable(file)
           THEN /\ files' = [files EXCEPT ![sessionPath] =
                                 JsonFile([file.data EXCEPT !.endTime = Some(t),
                                                            !.isRecording = Some(FALSE)])]
                /\ result' = "ok"
           ELSE /\ result' = "SessionNotFound"
                /\ UNCHANGED files

RecordStopOp(t, o) ==
    LET sessionId == getActiveSessionId(configFile)
        sessionPath == getSessionPath(Val(sessionId))
        file == files[sessionPath]
        sessionData == [file.data EXCEPT !.endTime = Some(t),
                                         !.isRecording = Some(FALSE)]
    IN  /\ Invocation("recordStop", None, None)
        /\ requests' = <<>>
        /\ UNCHANGED configFile
        /\ IF ~IsSet(sessionId)
           THEN result' = "NoActiveSession" /\ UNCHANGED files
           ELSE IF ~existsSync(file)
           THEN result' = "SessionNotFound" /\ UNCHANGED files
           ELSE IF ~Parsable(file)
           THEN result' = "Crash" /\ UNCHANGED files
           ELSE IF ~Truthy(file.data.isRecording)
           THEN result' = "NotRecording" /\ UNCHANGED files
           ELSE /\ files' = [files EXCEPT ![sessionPath] =
                                 writeFileSync(@, JsonFile(sessionData), TornFile, o)]
                /\ result' = IF o = "ok" THEN "ok" ELSE "Crash"

\* end that removes the session file of the session it ends.
EndDeletesFile(t, o1, o2) ==
    LET sessionId == getActiveSessionId(configFile)
        sessionPath == getSessionPath(Val(sessionId))
    IN  /\ Invocation("end", None, None)
        /\ requests' = <<>>
        /\ IF ~IsSet(sessionId)
           THEN result' = "NoActiveSession" /\ UNCHANGED disk
           ELSE IF ~existsSync(files[sessionPath])
           THEN result' = "SessionNotFound" /\ UNCHANGED disk
           ELSE /\ files' = [files EXCEPT ![sessionPath] = NoFile]
                /\ configFile' = setActiveSession(configFile, None, o2)
                /\ result' = "ok"

\* end that updates the session file but never clears the pointer.
EndKeepsPointer(t, o1, o2) ==
    LET sessionId == getActiveSessionId(configFile)
        sessionPath == getSessionPath(Val(sessionId))
        file == files[sessionPath]
    IN  /\ Invocation("end", None, None)
        /\ requests' = <<>>
        /\ UNCHANGED configFile
        /\ IF ~IsSet(sessionId)
           THEN result' = "NoActiveSession" /\ UNCHANGED files
           ELSE IF ~Parsable(file)
           THEN result' = "SessionNotFound" /\ UNCHANGED files
           ELSE /\ files' = [files EXCEPT ![sessionPath] =
                                 JsonFile([file.data EXCEPT !.endTime = Some(t),
                                                            !.isRecording = Some(FALSE)])]
                /\ result' = "ok"

EndOp(t, o1, o2) ==
    LET sessionId == getActiveSessionId(configFile)
        sessionPath == getSessionPath(Val(sessionId))
        file == files[sessionPath]
        sessionData == [file.data EXCEPT !.endTime = Some(t),
                                         !.isRecording = Some(FALSE)]
    IN  /\ Invocation("end", None, None)
        /\ requests' = <<>>
        /\ IF ~IsSet(sessionId)
           THEN result' = "NoActiveSession" /\ UNCHANGED disk
           ELSE IF ~existsSync(file)
           THEN result' = "SessionNotFound" /\ UNCHANGED disk
           ELSE IF ~Parsable(file)
           THEN result' = "EndFailed" /\ UNCHANGED disk
           ELSE /\ files' = [files EXCEPT ![sessionPath] =
                                 writeFileSync(@, JsonFile(sessionData), TornFile, o1)]
                /\ IF o1 # "ok"
                   THEN result' = "EndFailed" /\ UNCHANGED configFile
                   ELSE /\ configFile' = setActiveSession(configFile, None, o2)
                        /\ result' = IF o2 = "ok" THEN "ok" ELSE "EndFailed"

\* push that saves the metadata and git context it attached to the session
\* file after a successful upload.
PushSavesMetadata(env) ==
    LET sessionId == getActiveSessionId(configFile)
        sessionPath == getSessionPath(Val(sessionId))
        file == files[sessionPath]
        token == getToken(env, configFile)
    IN  /\ Invocation("push", None, env)
        /\ UNCHANGED configFile
        /\ IF ~IsSet(sessionId) \/ ~Parsable(file) \/ ~IsSet(token)
              \/ EmptyList(file.data.steps)
           THEN result' = "PushFailed" /\ requests' = <<>> /\ UNCHANGED files
           ELSE \E createdAt \in Times, git \in GitOutcomes :
                \E sessionData \in
                      {[file.data EXCEPT
                          !.metadata = IF IsSet(@) THEN @
                                       ELSE Some(Metadata(createdAt, createdAt)),
                          !.git = IF IsSet(git) THEN git ELSE @]} :
                /\ requests' = <<Request("POST", "/api/sessions", None, token,
                                          Some(sessionData))>>
                /\ files' = [files EXCEPT ![sessionPath] = JsonFile(sessionData)]
                /\ result' = "ok"

\* push that sends the session without first requiring a token.
PushNoTokenCheck(env) ==
    LET sessionId == getActiveSessionId(configFile)
        file == files[getSessionPath(Val(sessionId))]
        token == getToken(env, configFile)
    IN  /\ Invocation("push", None, env)
        /\ UNCHANGED disk
        /\ IF ~IsSet(sessionId)
           THEN result' = "NoActiveSession" /\ requests' = <<>>
           ELSE IF ~Parsable(file)
           THEN result' = "SessionNotFound" /\ requests' = <<>>
           ELSE IF EmptyList(file.data.steps)
           THEN result' = "EmptySession" /\ requests' = <<>>
           ELSE /\ requests' = <<Request("POST", "/api/sessions", None, token,
                                          Some(file.data))>>
                /\ result' = IF IsSet(token) THEN "ok" ELSE "AuthRejected"

PushOp(env) ==
    LET sessionId == getActiveSessionId(configFile)
        file == files[getSessionPath(Val(sessionId))]
        token == getToken(env, configFile)
        sessionData(createdAt, updatedAt, git) ==
            [file.data EXCEPT
                !.metadata = IF IsSet(@) THEN @ ELSE Some(Metadata(createdAt, updatedAt)),
                !.git = IF IsSet(git) THEN git ELSE @]
    IN  /\ Invocation("push", None, env)
        /\ UNCHANGED disk
        /\ IF ~IsSet(sessionId)
           THEN result' = "NoActiveSession" /\ requests' = <<>>
           ELSE IF ~existsSync(file)
           THEN result' = "SessionNotFound" /\ requests' = <<>>
           ELSE IF ~IsSet(token)
           THEN result' = "AuthError" /\ requests' = <<>>
           ELSE IF ~Parsable(file)
           THEN result' = "PushFailed" /\ requests' = <<>>
           ELSE IF EmptyList(file.data.steps)
           THEN result' = "EmptySession" /\ requests' = <<>>
           ELSE \E createdAt \in Times, updatedAt \in Times,
                   git \in GitOutcomes, resp \in PostResponses :
                /\ createdAt <= updatedAt
                /\ requests' = <<Request("POST", "/api/sessions", None, token,
                                          Some(sessionData(createdAt, updatedAt, git)))>>
                /\ result' = CASE resp = "200" -> "ok"
                                [] resp = "401" -> "AuthRejected"
                                [] resp = "500" -> "RemoteError"
                                [] resp = "network" -> "NetworkError"

\* replay that asks the remote whenever a token is available, local file or not.
ReplayAlwaysFetches(arg, env, o) ==
    LET targetSessionId == IF IsSet(arg) THEN arg ELSE getActiveSessionId(configFile)
        sessionPath == getSessionPath(Val(targetSessionId))
        token == getToken(env, configFile)
    IN  /\ Invocation("replay", arg, env)
        /\ UNCHANGED configFile
        /\ IF ~IsSet(targetSessionId)
           THEN result' = "NoSessionId" /\ requests' = <<>> /\ UNCHANGED files
           ELSE IF ~IsSet(token)
           THEN result' = "SessionNotFound" /\ requests' = <<>> /\ UNCHANGED files
           ELSE \E d \in RemoteSessions(Val(targetSessionId)) :
                /\ requests' = <<Request("GET", "/api/sessions/{id}", targetSessionId,
                                          token, None)>>
                /\ files' = [files EXCEPT ![sessionPath] = JsonFile(d)]
                /\ result' = "ok"

ReplayOp(arg, env, o) ==
    LET targetSessionId == IF IsSet(arg) THEN arg ELSE getActiveSessionId(configFile)
        sessionPath == getSessionPath(Val(targetSessionId))
        file == files[sessionPath]
        token == getToken(env, configFile)
    IN  /\ Invocation("replay", arg, env)
        /\ UNCHANGED configFile
        /\ IF ~IsSet(targetSessionId)
           THEN result' = "NoSessionId" /\ requests' = <<>> /\ UNCHANGED files
           ELSE IF existsSync(file)
           THEN /\ result' = IF Parsable(file) THEN "ok" ELSE "ReplayFailed"
                /\ requests' = <<>>
                /\ UNCHANGED files
           ELSE IF ~IsSet(token)
           THEN result' = "SessionNotFound" /\ requests' = <<>> /\ UNCHANGED files
           ELSE \E resp \in GetResponses(Val(targetSessionId)) :
                /\ requests' = <<Request("GET", "/api/sessions/{id}", targetSessionId,
                                          token, None)>>
                /\ IF resp.status = "200"
                   THEN /\ files' = [files EXCEPT ![sessionPath] =
                                         writeFileSync(@, JsonFile(resp.data), TornFile, o)]
                        /\ result' = IF o = "ok" THEN "ok" ELSE "FetchFailed"
                   ELSE /\ result' = IF resp.status = "404" THEN "SessionNotFound"
                                                            ELSE "FetchFailed"
                        /\ UNCHANGED files

\* detectErrors(filePath), as lookup and ai call it, on its own.
DetectOp(filePath) ==
    \E d \in {detectErrors(filePath, tools)} :
        /\ lastCmd' = "detect"
        /\ lastArg' = Some(filePath)
        /\ lastEnv' = None
        /\ calls' = d.calls
        /\ detected' = d.outcome.value
        /\ result' = IF d.outcome.kind = "throw" THEN "Threw" ELSE "ok"
        /\ requests' = <<>>
        /\ analysed' = <<filePath>>
        /\ answers' = <<>>
        /\ shown' = <<>>
        /\ UNCHANGED <<disk, tools>>

\* The lines of git status that lookup keeps:
\* /^[MA]\s+(.*\.(js|jsx|ts|tsx|py|java|rb|go|rs|php)$)/
ModifiedFiles(gitStatus) ==
    LET kept == SelectSeq(gitStatus,
                    LAMBDA l : l.x \in {"M", "A"} /\ l.y \in WhiteSpace /\ l.code)
    IN  [i \in 1..Len(kept) |-> trim(kept[i].path)]

\* The request lookup sends for one error.
LookupRequest(error, token) ==
    Request("GET", "/api/resolutions/lookup", None, token,
            Some([error |-> error.message, file |-> error.file,
                  line |-> error.line,
                  column |-> IF error.line > 0 THEN Some(error.column) ELSE None]))

\* The records lookup makes of what detectErrors returned for the files:
\* ...errors.map(e => ({ ...e, file })).
FoundIn(filesToAnalyze, runs) ==
    Concat([i \in 1..Len(runs) |->
               [j \in 1..Len(runs[i].outcome.value) |->
                   [message |-> runs[i].outcome.value[j].message,
                    file |-> filesToAnalyze[i],
                    line |-> runs[i].outcome.value[j].line,
                    column |-> runs[i].outcome.value[j].column,
                    source |-> runs[i].outcome.value[j].source]]])

\* The record lookup makes of the error message given with -e.
UserProvided(file, error) ==
    [message |-> Val(error),
     file |-> IF IsSet(file) THEN Val(file) ELSE <<"unknown">>,
     line |-> 0, column |-> 0, source |-> "user-provided"]

\* What the remote answers to a lookup request: the request fails (None), or
\* the response carries resolutions in the order the remote ranks them.
LookupAnswers ==
    {None, Some(<<"r2", "r1">>), Some(<<"r3", "r1", "r4", "r2">>)}

\* A slice that keeps the whole list.
sliceAll(list) == list

\* slice(0, 3)
slice3(list) == SubSeq(list, 1, IF Len(list) < 3 THEN Len(list) ELSE 3)

\* What lookup prints for one error: where it was found and the solutions
\* displayed, or, when the request failed, that searching failed.
Shown(error, answer) ==
    [file |-> error.file,
     message |-> error.message,
     solutions |-> IF IsSet(answer) THEN Some(slice3(Val(answer))) ELSE None]

\* `trail lookup [-f file] [-e error]`
LookupOp(file, error, env, git) ==
    /\ lastCmd' = "lookup"
    /\ lastArg' = error
    /\ lastEnv' = env
    /\ UNCHANGED <<disk, tools>>
    /\ IF ~IsSet(file) /\ ~IsSet(git)
       THEN \* git status throws
            /\ result' = "LookupFailed"
            /\ calls' = <<"git status">>
            /\ detected' = <<>> /\ requests' = <<>>
            /\ analysed' = <<>> /\ answers' = <<>> /\ shown' = <<>>
       ELSE \E filesToAnalyze \in {IF IsSet(file) THEN <<Val(file)>>
                                    ELSE ModifiedFiles(Val(git))} :
            IF Len(filesToAnalyze) = 0
            THEN /\ result' = "NoModifiedFiles"
                 /\ calls' = <<"git status">>
                 /\ detected' = <<>> /\ requests' = <<>>
                 /\ analysed' = <<>> /\ answers' = <<>> /\ shown' = <<>>
            ELSE \E runs \in {[i \in 1..Len(filesToAnalyze) |->
                                   detectErrors(filesToAnalyze[i], tools)]} :
                 \E found \in {FoundIn(filesToAnalyze, runs)} :
                 /\ analysed' = filesToAnalyze
                 /\ calls' = (IF IsSet(file) THEN <<>> ELSE <<"git status">>)
                                 \o Concat([i \in 1..Len(runs) |-> runs[i].calls])
                 /\ IF \E i \in 1..Len(runs) : runs[i].outcome.kind = "throw"
                    THEN /\ result' = "LookupFailed"
                         /\ detected' = <<>> /\ requests' = <<>>
                         /\ answers' = <<>> /\ shown' = <<>>
                    ELSE IF Len(found) = 0 /\ Falsy(error)
                    THEN /\ result' = "NoErrors"
                         /\ detected' = <<>> /\ requests' = <<>>
                         /\ answers' = <<>> /\ shown' = <<>>
                    ELSE /\ result' = "ok"
                         /\ detected' = (IF Len(found) = 0
                                         THEN <<UserProvided(file, error)>>
                                         ELSE found)
                         /\ requests' = [i \in 1..Len(detected') |->
                                LookupRequest(detected'[i], getToken(env, configFile))]
                         /\ answers' \in [1..Len(detected') -> LookupAnswers]
                         /\ shown' = [i \in 1..Len(detected') |->
                                          Shown(detected'[i], answers'[i])]

\* error.toString() of a record of detectErrors:
\* `${message} (${source}) at ${filePath}:${line}:${column}`, kept as its parts.
errorToString(e) ==
    [message |-> e.message, source |-> e.source,
     location |-> [filePath |-> e.filePath, line |-> e.line, column |-> e.column]]

\* The request of the cloud branch of ai.
SuggestRequest(error, token) ==
    Request("POST", "/api/ai/suggest", None, token, Some([error |-> error]))

\* What ai does once it has an error to analyse and has built its prompt.
AiSuggest(error, cloud, env, resp, detectCalls) ==
    IF ~cloud /\ tools.ollama = "ok"
    THEN \* the local model answered: its suggestion is printed
         /\ calls' = detectCalls \o <<"ollama">>
         /\ result' = "ok"
         /\ requests' = <<>>
    ELSE IF ~cloud
    THEN \* the local model failed; the cloud branch is for --cloud only
         /\ calls' = detectCalls \o <<"ollama">>
         /\ result' = "LocalFailed"
         /\ requests' = <<>>
    ELSE IF ~IsSet(getToken(env, configFile))
    THEN /\ calls' = detectCalls
         /\ result' = "AuthError"
         /\ requests' = <<>>
    ELSE /\ calls' = detectCalls
         /\ requests' = <<SuggestRequest(error, getToken(env, configFile))>>
         /\ result' = CASE resp = "200" -> "ok"
                         [] resp = "401" -> "AuthRejected"
                         [] resp = "500" -> "RemoteError"
                         [] resp = "network" -> "NetworkError"

\* `trail ai [-e error] [--cloud]`
AiOp(error, cloud, env, resp) ==
    /\ lastCmd' = IF cloud THEN "ai --cloud" ELSE "ai"
    /\ lastArg' = error
    /\ lastEnv' = env
    /\ answers' = <<>>
    /\ shown' = <<>>
    /\ UNCHANGED <<disk, tools>>
    /\ IF ~Falsy(error)
       THEN /\ analysed' = <<>>
            /\ detected' = <<>>
            /\ AiSuggest(Val(error), cloud, env, resp, <<>>)
       ELSE \E d \in {detectErrors(<<"cwd">>, tools)} :
            /\ analysed' = << <<"cwd">> >>
            /\ detected' = d.outcome.value
            /\ IF d.outcome.kind = "throw"
               THEN /\ calls' = d.calls
                    /\ result' = "Threw"
                    /\ requests' = <<>>
               ELSE IF Len(d.outcome.value) = 0
               THEN /\ calls' = d.calls
                    /\ result' = "NoErrors"
                    /\ requests' = <<>>
               ELSE AiSuggest(errorToString(d.outcome.value[1]), cloud, env, resp,
                              d.calls)

----------------------------------------------------------------------------
(* Inputs of an invocation *)

OptIds == {None} \cup {Some(id) : id \in Ids}

OptTokens == {None} \cup {Some(tk) : tk \in Tokens}

OptMessages == {None} \cup {Some(m) : m \in Messages}

Checkout == \E id \in Ids : CheckoutOp(id, "ok")

Resolve == \E m \in OptMessages : ResolveOp(m)

RecordStart == \E t \in Times : RecordStartOp(t, "ok")

RecordStop == \E t \in Times : RecordStopOp(t, "ok")

End == \E t \in Times : EndOp(t, "ok", "ok")

Push == \E env \in OptTokens : PushOp(env)

Replay == \E arg \in OptIds, env \in OptTokens : ReplayOp(arg, env, "ok")

\* The same commands with a file write that fails or is cut short.
CheckoutFault == \E id \in Ids, o \in WriteFaults : CheckoutOp(id, o)

RecordStartFault == \E t \in Times, o \in WriteFaults : RecordStartOp(t, o)

RecordStopFault == \E t \in Times, o \in WriteFaults : RecordStopOp(t, o)

EndFault ==
    \E t \in Times, o1 \in WriteOutcomes, o2 \in WriteOutcomes :
        <<o1, o2>> # <<"ok", "ok">> /\ EndOp(t, o1, o2)

ReplayFault ==
    \E arg \in OptIds, env \in OptTokens, o \in WriteFaults : ReplayOp(arg, env, o)

Detect == \E filePath \in SourceFiles : DetectOp(filePath)

OptErrorStrings == {None} \cup {Some(m) : m \in ErrorStrings}

Lookup ==
    \E file \in {None} \cup {Some(f) : f \in SourceFiles},
       error \in OptErrorStrings, env \in OptTokens, git \in GitStatusOutcomes :
        LookupOp(file, error, env, git)

Ai ==
    \E error \in OptErrorStrings, cloud \in BOOLEAN, env \in OptTokens,
       resp \in PostResponses :
        AiOp(error, cloud, env, resp)

----------------------------------------------------------------------------
(* Specifications *)

\* A fresh ~/.trail: no session files; the config file is absent or holds
\* what the user put there (README, "Configuration").
Init ==
    /\ configFile \in {NoConfigFile} \cup
           { JsonConfigFile([activeSession |-> a, token |-> tk]) :
                 a \in OptIds, tk \in OptTokens }
    /\ files = [id \in Ids |-> NoFile]
    /\ lastCmd = "none"
    /\ lastArg = None
    /\ lastEnv = None
    /\ result = "none"
    /\ requests = <<>>
    /\ tools = [lint |-> LintUnavailable, syntax |-> SyntaxOk, snippet |-> "ok",
                ollama |-> "failed"]
    /\ calls = <<>>
    /\ detected = <<>>
    /\ analysed = <<>>
    /\ answers = <<>>
    /\ shown = <<>>

Next ==
    \/ Start
    \/ Which
    \/ Checkout
    \/ Resolve
    \/ RecordStart
    \/ RecordStop
    \/ End
    \/ Push
    \/ Replay

\* Every file write succeeds.
Spec == Init /\ [][Next]_vars

NextFault ==
    \/ Next
    \/ CheckoutFault
    \/ RecordStartFault
    \/ RecordStopFault
    \/ EndFault
    \/ ReplayFault

\* File writes may fail or be interrupted.
SpecFault == Init /\ [][NextFault]_vars

\* A ~/.trail in which no session has been made active yet.
InitFresh == Init /\ ~IsSet(getActiveSessionId(configFile))

SpecFresh == InitFresh /\ [][Next]_vars

\* Code analysis: the external tools answer in one of the ways of
\* ToolOutcomes, and detection and lookup are run against them.
InitDetect ==
    /\ configFile = NoConfigFile
    /\ files = [id \in Ids |-> NoFile]
    /\ lastCmd = "none"
    /\ lastArg = None
    /\ lastEnv = None
    /\ result = "none"
    /\ requests = <<>>
    /\ tools \in ToolOutcomes
    /\ calls = <<>>
    /\ detected = <<>>
    /\ analysed = <<>>
    /\ answers = <<>>
    /\ shown = <<>>

\* One command is run against the tools' answers; the answers do not
\* change, so a second run would repeat the first.
NextDetect ==
    \/ lastCmd = "none" /\ Detect
    \/ lastCmd = "none" /\ Lookup
    \/ lastCmd = "none" /\ Ai

SpecDetect == InitDetect /\ [][NextDetect]_vars

----------------------------------------------------------------------------
(* Properties *)

ActiveId == getActiveSessionId(configFile)

ActiveFile == files[getSessionPath(Val(ActiveId))]

\* An active session is set and its file holds a session.
ActiveSessionLoaded == IsSet(ActiveId) /\ Parsable(ActiveFile)

RecordingImpliesNoEndTime ==
    \A id \in Ids :
        (Parsable(files[id]) /\ Truthy(files[id].data.isRecording))
            => ~IsSet(files[id].data.endTime)

LifecycleCmds == {"recordStart", "recordStop", "end", "checkout"}

\* C1: record start, record stop, end and checkout preserve, from any state
\* whose session files satisfy it, "isRecording = true implies endTime unset"
\* for every session file on disk.
C1_RecordingHasNoEndTime ==
    [][(lastCmd' \in LifecycleCmds /\ RecordingImpliesNoEndTime)
          => RecordingImpliesNoEndTime']_vars

\* A record stop has just stopped a recording: the file has an endTime and
\* is no longer recording.
C1_Witness ==
    /\ lastCmd = "recordStop"
    /\ result = "ok"
    /\ ActiveSessionLoaded
    /\ IsSet(ActiveFile.data.endTime)
    /\ ActiveFile.data.isRecording = Some(FALSE)

\* C2: every session file observable on disk is complete content, never an
\* empty, truncated or otherwise unparsable file, even when a write is
\* interrupted.
C2_AtomicReplace == \A id \in Ids : files[id].kind # "torn"

Failures ==
    {"UnknownCommand", "NoActiveSession", "NoSessionId", "SessionNotFound",
     "AuthError", "AuthRejected", "RemoteError", "NetworkError", "EmptySession",
     "FetchFailed", "PushFailed", "ReplayFailed", "EndFailed", "Crash"}

\* C3: a command that fails, at whatever step, leaves the config file and
\* every session file as they were before the command started.
C3_FailureLeavesDiskUnchanged ==
    [][(result' \in Failures) => (disk' = disk)]_vars

\* C4: record stop on an active recording session leaves isRecording = false;
\* a record stop immediately after a successful record stop only signals
\* that nothing is recording and leaves session files and config as they were.
C4_IdempotentStop ==
    [][/\ (lastCmd' = "recordStop" /\ ActiveSessionLoaded
            /\ Truthy(ActiveFile.data.isRecording))
          => /\ result' = "ok"
             /\ ActiveFile'.data.isRecording = Some(FALSE)
       /\ (lastCmd = "recordStop" /\ result = "ok" /\ lastCmd' = "recordStop")
          => /\ result' = "NotRecording"
             /\ disk' = disk
             /\ requests' = <<>>]_vars

\* A record stop found the active session already stopped.
C4_Witness ==
    /\ lastCmd = "recordStop"
    /\ result = "NotRecording"
    /\ ActiveSessionLoaded
    /\ ActiveFile.data.isRecording = Some(FALSE)
    /\ IsSet(ActiveFile.data.endTime)

OtherFields(d) == [d EXCEPT !.endTime = None, !.isRecording = None]

\* C5: end with an active session whose file exists sets endTime, forces
\* isRecording = false, keeps the file's other fields and the other files,
\* and clears the pointer; with no active session it fails NoActiveSession,
\* with the file missing SessionNotFound, changing nothing on disk.
C5_End ==
    [][(lastCmd' = "end") =>
          IF ~IsSet(ActiveId)
          THEN result' = "NoActiveSession" /\ disk' = disk
          ELSE IF ~existsSync(ActiveFile)
          THEN result' = "SessionNotFound" /\ disk' = disk
          ELSE LET id == Val(ActiveId)
               IN  /\ result' = "ok"
                   /\ Parsable(files'[id])
                   /\ IsSet(files'[id].data.endTime)
                   /\ files'[id].data.isRecording = Some(FALSE)
                   /\ OtherFields(files'[id].data) = OtherFields(files[id].data)
                   /\ \A other \in Ids \ {id} : files'[other] = files[other]
                   /\ ~IsSet(ActiveId')
                   /\ readUserConfig(configFile').token = readUserConfig(configFile).token]_vars

\* An end has just closed a session: pointer cleared, file ended.
C5_Witness ==
    /\ lastCmd = "end"
    /\ result = "ok"
    /\ ~IsSet(ActiveId)
    /\ \E id \in Ids :
          /\ Parsable(files[id])
          /\ IsSet(files[id].data.endTime)
          /\ files[id].data.isRecording = Some(FALSE)

\* C6: with a token available, push of an active session whose command log
\* is empty or missing fails with EmptySession and sends nothing; and push
\* fails with EmptySession only when the command log is empty.
C6_EmptySessionRejected ==
    [][(lastCmd' = "push" /\ ActiveSessionLoaded
            /\ IsSet(getToken(lastEnv', configFile)))
          => /\ EmptyList(ActiveFile.data.commands)
                    => (result' = "EmptySession" /\ requests' = <<>>)
             /\ (result' = "EmptySession")
                    => EmptyList(ActiveFile.data.commands)]_vars

\* C7: push, with a token, of a stopped session holding one recorded command
\* is not rejected as empty, and when the remote accepts it the local file
\* has metadata.status = "active" and the one request sent is the POST whose
\* body carries exactly that command.
C7_EndToEndPush ==
    [][(lastCmd' = "push" /\ ActiveSessionLoaded
            /\ ActiveFile.data.isRecording = Some(FALSE)
            /\ ActiveFile.data.commands = Some(<<Cmd1>>)
            /\ IsSet(getToken(lastEnv', configFile)))
          => /\ result' # "EmptySession"
             /\ (result' = "ok") =>
                    /\ IsSet(ActiveFile'.data.metadata)
                    /\ Val(ActiveFile'.data.metadata).status = "active"
                    /\ Len(requests') = 1
                    /\ requests'[1].method = "POST"
                    /\ Val(requests'[1].body).commands = Some(<<Cmd1>>)]_vars

\* C8: push with no token in TRAIL_TOKEN or the config sends no request and
\* leaves session files and config unchanged; for an active session whose
\* file exists it fails with the auth error, whatever the file holds.
C8_PushWithoutToken ==
    [][(lastCmd' = "push" /\ ~IsSet(getToken(lastEnv', configFile)))
          => /\ requests' = <<>>
             /\ disk' = disk
             /\ result' # "ok"
             /\ (IsSet(ActiveId) /\ existsSync(ActiveFile)) => result' = "AuthError"]_vars

\* A push of a session that has steps to send was stopped by the missing token.
C8_Witness ==
    /\ lastCmd = "push"
    /\ result = "AuthError"
    /\ ~IsSet(getToken(lastEnv, configFile))
    /\ requests = <<>>
    /\ ActiveSessionLoaded
    /\ ~EmptyList(ActiveFile.data.steps)

\* C9: resolve(message) with an active session whose file exists leaves the
\* file's resolution equal to message, and isRecording, endTime, commands
\* and the pointer unchanged.
C9_ResolveAnnotates ==
    [][(lastCmd' = "resolve" /\ IsSet(ActiveId) /\ existsSync(ActiveFile))
          => /\ ActiveId' = ActiveId
             /\ ActiveFile'.data.resolution = lastArg'
             /\ ActiveFile'.data.isRecording = ActiveFile.data.isRecording
             /\ ActiveFile'.data.endTime = ActiveFile.data.endTime
             /\ ActiveFile'.data.commands = ActiveFile.data.commands]_vars

\* C10: start succeeds and sets the config's activeSession to a newly
\* generated id that differs from the previously active one.
C10_StartCreatesSession ==
    [][(lastCmd' = "start")
          => /\ result' = "ok"
             /\ IsSet(ActiveId')
             /\ ActiveId' # ActiveId]_vars

\* C11: checkout(id) of an id with a local session file makes id the active
\* session and modifies no session file; with no local file it fails with
\* SessionNotFound and the pointer (and every file) keeps its value.
C11_Checkout ==
    [][(lastCmd' = "checkout") =>
          LET id == Val(lastArg')
          IN  /\ files' = files
              /\ IF existsSync(files[getSessionPath(id)])
                 THEN result' = "ok" /\ ActiveId' = Some(id)
                 ELSE result' = "SessionNotFound" /\ configFile' = configFile]_vars

\* A session that is recording has just been checked out, still recording.
C11_Witness ==
    /\ lastCmd = "checkout"
    /\ result = "ok"
    /\ ActiveId = lastArg
    /\ ActiveSessionLoaded
    /\ Truthy(ActiveFile.data.isRecording)

ReplayTarget == IF IsSet(lastArg') THEN lastArg' ELSE ActiveId

\* What C16 says of every replay apart from the signal of a failed fetch.
ReplayFetchesOnlyWhenMissing ==
    LET target == ReplayTarget
        file == files[getSessionPath(Val(target))]
        token == getToken(lastEnv', configFile)
    IN  /\ \A id \in Ids : existsSync(files[id]) => files'[id] = files[id]
        /\ (requests' # <<>>) =>
              /\ IsSet(target) /\ ~existsSync(file) /\ IsSet(token)
              /\ requests' = <<Request("GET", "/api/sessions/{id}", target, token, None)>>
        /\ (requests' # <<>> /\ result' = "ok") =>
              /\ Parsable(files'[Val(target)])
              /\ files'[Val(target)].data \in RemoteSessions(Val(target))
        /\ (IsSet(target) /\ ~existsSync(file) /\ ~IsSet(token)) =>
              (requests' = <<>> /\ result' = "SessionNotFound" /\ files' = files)

C18_RecordStart ==
    [][(lastCmd' = "recordStart") =>
          IF ~IsSet(ActiveId)
          THEN result' = "NoActiveSession" /\ disk' = disk
          ELSE IF ActiveSessionLoaded /\ Truthy(ActiveFile.data.isRecording)
          THEN files' = files
          ELSE /\ result' = "ok"
               /\ ActiveFile'.data.id = ActiveId
               /\ ActiveFile'.data.isRecording = Some(TRUE)
               /\ ActiveFile'.data.commands = Some(<<>>)]_vars

\* C27: end, when it succeeds, leaves no session active; with no session
\* active, record start, record stop, resolve, end and push fail with
\* NoActiveSession and change no file, which reports that there is no active
\* session, and only checkout sets the pointer again.
C27_NoActiveSessionAfterEnd ==
    [][/\ (lastCmd' = "end" /\ result' = "ok") => ~IsSet(ActiveId')
       /\ (~IsSet(ActiveId)
              /\ lastCmd' \in {"recordStart", "recordStop", "resolve", "end", "push"})
            => (result' = "NoActiveSession" /\ disk' = disk /\ requests' = <<>>)
       /\ (~IsSet(ActiveId) /\ lastCmd' = "which") => result' = "NoActiveSession"
       /\ (~IsSet(ActiveId) /\ IsSet(ActiveId')) => lastCmd' = "checkout"]_vars

\* A session recorded locally at the latest time has an end time, the
\* pointer is unset (so an end cleared it), and a push has just failed for
\* want of an active session.
C27_Witness ==
    /\ lastCmd = "push"
    /\ result = "NoActiveSession"
    /\ ~IsSet(ActiveId)
    /\ \E id \in Ids :
          /\ Parsable(files[id])
          /\ files[id].data.startTime = Some(MaxTime)
          /\ IsSet(files[id].data.endTime)

\* C28: checkout and end change nothing of the config but activeSession:
\* the stored token is the same after the command as before it.
C28_PointerCommandsKeepToken ==
    [][(lastCmd' \in {"checkout", "end"}) =>
          /\ readUserConfig(configFile').token = readUserConfig(configFile).token
          /\ (configFile' # configFile) => Parsable(configFile')]_vars

\* A checkout has just changed the pointer of a config that holds a token.
C28_Witness ==
    /\ lastCmd = "checkout"
    /\ result = "ok"
    /\ ActiveId = lastArg
    /\ IsSet(readUserConfig(configFile).token)

\* A session without the fields push may attach for the request.
LocalFields(d) == [d EXCEPT !.metadata = None, !.git = None]

\* C29: push, whether it succeeds or fails, changes neither a session file
\* nor the config; what it sends is the content of the local file, its id
\* included, plus the metadata and git context attached for the request.
C29_PushChangesNothingLocal ==
    [][(lastCmd' = "push") =>
          /\ disk' = disk
          /\ (requests' # <<>>) =>
                /\ Len(requests') = 1
                /\ LocalFields(Val(requests'[1].body)) = LocalFields(ActiveFile.data)
                /\ Val(requests'[1].body).id = ActiveId]_vars

\* A push has just uploaded a session with metadata made for the request
\* while the local file still has none.
C29_Witness ==
    /\ lastCmd = "push"
    /\ result = "ok"
    /\ Len(requests) = 1
    /\ IsSet(Val(requests[1].body).metadata)
    /\ ActiveSessionLoaded
    /\ ~IsSet(ActiveFile.data.metadata)

\* C30: starting with no active session, the pointer is always unset or
\* names a session whose file exists, and no command removes a session file.
C30_PointerNamesExistingFile ==
    /\ [](~IsSet(ActiveId) \/ existsSync(ActiveFile))
    /\ [][\A id \in Ids : existsSync(files[id]) => existsSync(files'[id])]_vars

\* Two session files exist, one of them checked out, the other ended.
C30_Witness ==
    /\ IsSet(ActiveId)
    /\ \A id \in Ids : Parsable(files[id])
    /\ \E id \in Ids : id # Val(ActiveId) /\ IsSet(files[id].data.endTime)

----------------------------------------------------------------------------
(* Properties of error detection *)

\* What the lint step of the detection just run yielded.
LintYield == lintBlock(Val(lastArg'), tools)

LintSources == {"eslint:no-undef", "eslint:semi", "eslint:unknown"}

\* C12: detect runs lint first; when lint yields one or more records detect
\* returns exactly those, the syntax checker is not run and nothing in the
\* result comes from it; the syntax checker runs only after lint, and only
\* when lint yielded no record or failed.
C12_ShortCircuit ==
    [][(lastCmd' = "detect") =>
          /\ Len(calls') >= 1 /\ calls'[1] = "eslint"
          /\ (LintYield.kind = "return") =>
                /\ detected' = LintYield.value
                /\ calls' = <<"eslint">>
                /\ \A i \in 1..Len(detected') : detected'[i].source \in LintSources
          /\ \A i \in 1..Len(calls') :
                (calls'[i] = "node -c") => (i = 2 /\ LintYield.kind # "return")]_vars

\* Lint reported errors and detect returned them although the syntax check
\* would have failed.
C12_Witness ==
    /\ lastCmd = "detect"
    /\ calls = <<"eslint">>
    /\ Len(detected) = 2
    /\ tools.syntax.status = "failed"

\* C13: when lint yields no record (no errors, warnings only, the tool
\* failing, unparsable output) and the syntax checker succeeds, detect
\* returns the empty sequence.
C13_SyntaxSuccessEndsDetection ==
    [][(lastCmd' = "detect" /\ LintYield.kind # "return"
          /\ tools.syntax.status = "ok")
         => (result' = "ok" /\ detected' = <<>>)]_vars

\* Lint gave warnings only, the syntax check passed, detect returned nothing.
C13_Witness ==
    /\ lastCmd = "detect"
    /\ calls = <<"eslint", "node -c">>
    /\ detected = <<>>
    /\ tools.syntax.status = "ok"
    /\ tools.lint = [status |-> "exit0", stdout |-> Some(<<LintResult(<<Warning>>)>>)]

\* C14: detect never throws: whatever the tools answer and whether or not
\* the snippet file can be read, it returns a sequence of records.
C14_DetectNeverThrows == (lastCmd = "detect") => (result = "ok")

\* Detect returned a record with no tool available and the file unreadable.
C14_Witness ==
    /\ lastCmd = "detect"
    /\ result = "ok"
    /\ tools.lint = LintUnavailable
    /\ tools.syntax.status = "failed"
    /\ tools.snippet = "unreadable"
    /\ Len(detected) = 1

\* C15: in lookup, when detection over the files analysed (none included)
\* yields no record: with an error string given, exactly one record with
\* source "user-provided", line 0 and that string as message is made and
\* looked up; with none given, no lookup request is made.
C15_FallbackSynthesis ==
    [][(lastCmd' = "lookup" /\ result' # "LookupFailed"
          /\ \A i \in 1..Len(detected') : detected'[i].source = "user-provided")
         => IF ~Falsy(lastArg')
            THEN /\ Len(detected') = 1
                 /\ detected'[1].source = "user-provided"
                 /\ detected'[1].line = 0
                 /\ detected'[1].message = Val(lastArg')
                 /\ Len(requests') = 1
                 /\ Val(requests'[1].body).error = Val(lastArg')
            ELSE requests' = <<>>]_vars

\* The error output the syntax step of the detection just run worked on.
ErrorOutput == errorOutputOf(tools.syntax.stderr)

\* The detection just run went through the syntax step and the checker failed.
SyntaxFailedStep ==
    /\ lastCmd' = "detect"
    /\ calls' = <<"eslint", "node -c">>
    /\ tools.syntax.status = "failed"

OneIfZero(n) == IF n = 0 THEN 1 ELSE n

\* The text a group captured, or a default when it took no part.
GroupOr(m, g, default) == IF IsSet(m[g]) THEN Val(m[g]) ELSE default

\* The number a group captured, or a default when it took no part or holds
\* no number.
NumberOr(m, g, default) ==
    IF IsSet(m[g]) /\ IsSet(parseInt(Val(m[g])))
    THEN OneIfZero(Val(parseInt(Val(m[g])))) ELSE default

\* C19: the patterns are tried in order and the first that matches alone
\* determines the record.  For the stack-trace pattern (file:line:col ...
\* message) the record's filePath, line, column and message are the file,
\* line, column and message that pattern captured; for the colon-message
\* patterns (type: message, optionally followed by at ... (file:line:col))
\* and the module-not-found pattern they are the captured message and
\* location, and a group that did not match defaults to the target file,
\* line 1, column 1.
C19_PatternPriority ==
    [][(SyntaxFailedStep /\ FirstMatching(Matches(ErrorOutput)) # 0) =>
          LET k == FirstMatching(Matches(ErrorOutput))
              m == Matches(ErrorOutput)[k][1]
              target == Val(lastArg')
          IN  /\ Len(detected') = 1
              /\ IF k = 1
                 THEN /\ detected'[1].filePath = pathRelative(Val(m[1]))
                      /\ detected'[1].line = NumberOr(m, 2, 1)
                      /\ detected'[1].column = NumberOr(m, 3, 1)
                      /\ detected'[1].message = trim(Val(m[4]))
                 ELSE IF k = 4
                 THEN /\ detected'[1].filePath = pathRelative(target)
                      /\ detected'[1].line = 1
                      /\ detected'[1].column = 1
                      /\ detected'[1].message = trim(Val(m[1]))
                 ELSE /\ detected'[1].filePath = pathRelative(GroupOr(m, 3, target))
                      /\ detected'[1].line = NumberOr(m, 4, 1)
                      /\ detected'[1].column = NumberOr(m, 5, 1)
                      /\ detected'[1].message = trim(Val(OrElse(m[2], m[1])))]_vars

\* C20: when lint yields nothing and the syntax checker fails, detect
\* returns exactly one record whatever the checker's error output is: the
\* record of the first pattern that matches, or, when none matches, a record
\* whose message is the trimmed first line of the output.
C20_ExactlyOneRecord ==
    [][(lastCmd' = "detect" /\ LintYield.kind # "return"
          /\ tools.syntax.status = "failed")
         => LET k == FirstMatching(Matches(ErrorOutput))
            IN  /\ result' = "ok"
                /\ Len(detected') = 1
                /\ IF k = 0
                   THEN /\ detected'[1].message = trim(split(ErrorOutput)[1])
                        /\ detected'[1].source = "node-runtime"
                   ELSE /\ detected'[1].message =
                             trim(Val(OrElse(Matches(ErrorOutput)[k][1][2],
                                             Matches(ErrorOutput)[k][1][1])))
                        /\ detected'[1].source = "node-syntax"]_vars

\* The checker failed with output no pattern matches; detect returned the
\* record of its first line.
C20_Witness ==
    /\ lastCmd = "detect"
    /\ Len(detected) = 1
    /\ detected[1].source = "node-runtime"
    /\ Len(tools.syntax.stderr) > 1

\* C21: a tool that cannot run is never reported as an error of the code:
\* when lint cannot run or gives output that cannot be parsed, detection goes
\* on to the syntax check, and when the syntax checker itself cannot be run,
\* detection returns no record made of that failure.
C21_ToolUnavailable ==
    (lastCmd = "detect") =>
        /\ (execSyncThrows(tools.lint) \/ ~IsSet(tools.lint.stdout))
              => calls = <<"eslint", "node -c">>
        /\ (tools.syntax.status = "unavailable" /\ calls = <<"eslint", "node -c">>)
              => detected = <<>>

\* The diagnostics of error severity eslint reported, in its order.
ErrorDiagnostics ==
    LET eslintResults == Val(tools.lint.stdout)
    IN  Concat([i \in 1..Len(eslintResults) |->
                   SelectSeq(eslintResults[i].messages, LAMBDA m : m.severity = 2)])

\* eslint ran and reported: it wrote its JSON results and exited with status
\* 0 (no error-severity diagnostic) or 1 (some).
LintReported ==
    /\ tools.lint.status \in {"exit0", "exit1"}
    /\ IsSet(tools.lint.stdout)

\* C22: when eslint reports, detection returns one record for each
\* diagnostic of error severity, in eslint's order, with the diagnostic's
\* message and source eslint:<ruleId or unknown>, and none for a warning;
\* with at least one such diagnostic that is what detection returns, without
\* running the syntax check, and with none detection goes on to the syntax
\* check.
C22_LintRecords ==
    (lastCmd = "detect" /\ LintReported) =>
        IF Len(ErrorDiagnostics) > 0
        THEN /\ calls = <<"eslint">>
             /\ Len(detected) = Len(ErrorDiagnostics)
             /\ \A i \in 1..Len(detected) :
                   /\ detected[i].message = trim(ErrorDiagnostics[i].message)
                   /\ detected[i].source = eslintSource(ErrorDiagnostics[i].ruleId)
                   /\ detected[i].line = ErrorDiagnostics[i].line
        ELSE calls = <<"eslint", "node -c">>

\* C23: every record detection returns, whichever step made it, has a
\* message that is not empty once trimmed, a source, and a line and a column
\* that are integers of at least 1.
C23_RecordWellFormed ==
    (lastCmd = "detect") =>
        \A i \in 1..Len(detected) :
            /\ Len(detected[i].message) > 0
            /\ detected[i].message = trim(detected[i].message)
            /\ detected[i].source \in LintSources \cup
                                      {"node-syntax", "node-runtime", "trail-cli"}
            /\ detected[i].line \in Nat \ {0}
            /\ detected[i].column \in Nat \ {0}

\* C24: lookup looks up the errors file by file in the order of the files
\* analysed, one request per error in that order; for each error it shows
\* the first three resolutions of the answer at most, in the answer's order;
\* a request that fails is reported for its error and the errors after it are
\* looked up all the same.
C24_LookupOrder ==
    [][(lastCmd' = "lookup" /\ result' = "ok") =>
          /\ Len(requests') = Len(detected')
          /\ Len(answers') = Len(detected')
          /\ Len(shown') = Len(detected')
          /\ \A i \in 1..Len(detected') :
                /\ Val(requests'[i].body).error = detected'[i].message
                /\ Val(requests'[i].body).file = detected'[i].file
                /\ shown'[i].message = detected'[i].message
                /\ shown'[i].file = detected'[i].file
                /\ IF IsSet(answers'[i])
                   THEN /\ IsSet(shown'[i].solutions)
                        /\ Len(Val(shown'[i].solutions)) <= 3
                        /\ \A k \in 1..Len(Val(answers'[i])) :
                              k <= 3 => /\ k <= Len(Val(shown'[i].solutions))
                                        /\ Val(shown'[i].solutions)[k] = Val(answers'[i])[k]
                   ELSE ~IsSet(shown'[i].solutions)
          /\ \A i \in 1..Len(detected'), j \in 1..Len(detected') :
                (i < j /\ detected'[i].source # "user-provided") =>
                    \E a \in 1..Len(analysed'), b \in 1..Len(analysed') :
                        /\ a <= b
                        /\ analysed'[a] = detected'[i].file
                        /\ analysed'[b] = detected'[j].file]_vars

\* Lookup found errors in two files; the request for the first error failed
\* and a later answer carried more than three resolutions.
C24_Witness ==
    /\ lastCmd = "lookup"
    /\ result = "ok"
    /\ Len(analysed) = 2
    /\ Len(detected) >= 2
    /\ detected[1].file # detected[Len(detected)].file
    /\ ~IsSet(answers[1])
    /\ \E i \in 2..Len(detected) :
          /\ IsSet(answers[i])
          /\ Len(Val(answers[i])) > 3
          /\ Len(Val(shown[i].solutions)) = 3

\* The ai command was run without --cloud and its local model failed.
LocalFailedStep == lastCmd' = "ai" /\ "ollama" \in Range(calls') /\ tools.ollama = "failed"

\* C25: ai asks the cloud service (POST /api/ai/suggest) whenever the local
\* model is not asked or not available: with --cloud, given a token, the
\* local model is not run and the request is sent; without --cloud, when the
\* local model fails and a token is there, the request is sent too.
C25_CloudFallback ==
    [][/\ (lastCmd' = "ai --cloud" /\ result' # "NoErrors"
             /\ IsSet(getToken(lastEnv', configFile)))
           => /\ "ollama" \notin Range(calls')
              /\ Len(requests') = 1
              /\ requests'[1].path = "/api/ai/suggest"
       /\ (LocalFailedStep /\ IsSet(getToken(lastEnv', configFile)))
           => /\ Len(requests') = 1
              /\ requests'[1].path = "/api/ai/suggest"]_vars

\* C26: no request is sent to the remote service when there is no token,
\* neither in TRAIL_TOKEN nor in the config: every request of lookup, replay,
\* push and ai --cloud carries a token, and a command that needs the remote
\* and has none ends with an authentication error.
C26_NoRequestWithoutToken ==
    /\ \A i \in 1..Len(requests) : IsSet(requests[i].auth)
    /\ (lastCmd \in {"lookup", "ai --cloud"}
          /\ result \notin {"NoErrors", "NoModifiedFiles", "LookupFailed"}
          /\ ~IsSet(getToken(lastEnv, configFile)))
         => result = "AuthError"

====
